---- MODULE Spec2Model ----
(***************************************************************************)
(* face-trigger-lambda/face_trigger.py                                     *)
(*                                                                         *)
(* The module body, the entry point infinite_infer_run with its main loop, *)
(* the RepeatedTimer callback fps_count, start_over, cleanup and the       *)
(* LocalDisplay thread, as one state machine.  Three threads of control    *)
(* interleave: the main thread (module body and infinite_infer_run), the   *)
(* timer thread (fps_count) and the display thread (LocalDisplay.run).     *)
(*                                                                         *)
(* The module body calls infinite_infer_run() on line 244, before the def  *)
(* statements of cleanup, start_over and fps_count (lines 247-287) have    *)
(* run; `names` is the set of those module-level names that are bound.     *)
(* Once the body has run to its end the module's importer may call the     *)
(* entry point itself, and cleanup.                                        *)
(***************************************************************************)
EXTENDS Integers, Sequences, FiniteSets, TLC

\* ---------------------------------------------------------------- bounds
MaxFrames == 3     \* frames the camera delivers in one run of the model
MaxBatch  == 2     \* largest configured batch_size
MaxSkip   == 2     \* largest configured frame_skip_factor
MaxTicks  == 1     \* firings of the periodic timer in one run of the model

\* ------------------------------------------------------ program constants
FpsQueueMaxLen == 100    \* deque(maxlen=100)
FpsInterval    == 5      \* RepeatedTimer(interval=5.0), frame_count/5.0

VARIABLES
    mpc,          \* position of the module body: "L244", "defs", "loaded", "crashed"
    names,        \* module-level function names bound so far
    config,       \* what setup_config() returns
    fpc,          \* position inside infinite_infer_run ("idle": not running)
    calls,        \* invocations of infinite_infer_run begun
    exc,          \* the exception raised in the current/last invocation
    caught,       \* the except clause of line 240 has logged it and returned
    propagated,   \* an exception left infinite_infer_run
    frame_count,  \* global frame_count
    reg,          \* the value loaded by frame_count += 1 before it is stored
    fps,          \* global fps, in tenths (frame_count / 5.0 = 2 * frame_count / 10)
    fps_queue,    \* global fps_queue, same unit
    sequence,     \* global sequence
    faces,        \* global faces: the frame each crop was taken from
    landmarks,    \* global landmarks: the frame each landmark was predicted on
    fps_counter,  \* global fps_counter: "None", "created", "running", "stopped"
    tpc,          \* position of the timer thread inside fps_count
    display,      \* the LocalDisplay thread: "none", "started", "dead"
    stop_request, \* LocalDisplay.stop_request
    cleaned,      \* outcome of cleanup(): "no", "done", "AttributeError"
    \* history of the run, read by the properties only
    ingested,     \* frames getLastFrame has delivered
    reported,     \* sum of the frame counts fps_count has reported
    ticks,        \* timer firings so far
    cur,          \* what happened to the frame of the current iteration
    streak,       \* successive face+landmark frames since the lists were empty
    lastNoFace,   \* the last processed frame without a face (0: none)
    lastReset,    \* the frame during which start_over() last ran (0: none)
    sinceReset,   \* processed frames with a face since start_over() last ran
    batch         \* the last batch handed to face_recognizer.embed

vars == <<mpc, names, config, fpc, calls, exc, caught, propagated, frame_count,
          reg, fps, fps_queue, sequence, faces, landmarks, fps_counter, tpc,
          display, stop_request, cleaned, ingested, reported, ticks, cur,
          streak, lastNoFace, lastReset, sinceReset, batch>>

main_globals  == <<sequence, faces, landmarks>>
timer_globals == <<fps, fps_queue, tpc, reported, ticks>>
history       == <<cur, streak, lastNoFace, lastReset, sinceReset, batch>>

\* ------------------------------------------------------------ configuration
Resolutions == {"480p", "4k"}
RESOLUTION  == {"1080p", "720p", "480p", "360p"}

Configs == [batch_size : 1..MaxBatch,
            frame_skip_factor : 1..MaxSkip,
            resolution : Resolutions]

batch_size        == config.batch_size
frame_skip_factor == config.frame_skip_factor
resolution        == config.resolution

NoFrame == [id |-> 0, detect |-> "none", lm |-> FALSE, rec |-> FALSE, emit |-> FALSE]
NoBatch == [n |-> 0, faces |-> <<>>, landmarks |-> <<>>, lastNoFace |-> 0,
            lastReset |-> 0]

LoopExc == {"FrameFailed", "DetectError", "PredictError", "RecognizeError",
            "EncodeFailed"}
InitExc == {"SetupError", "InvalidResolution", "NameError", "ModelError"}

\* ---------------------------------------------------------------- Init
\* Module-level assignments of lines 30-37; the body is about to reach line 244.
Init ==
    /\ mpc = "L244"
    /\ names = {}
    /\ config \in Configs
    /\ fpc = "idle"
    /\ calls = 0
    /\ exc = "none"
    /\ caught = FALSE
    /\ propagated = FALSE
    /\ frame_count = 0
    /\ reg = 0
    /\ fps = 0
    /\ fps_queue = <<>>
    /\ sequence = 0
    /\ faces = <<>>
    /\ landmarks = <<>>
    /\ fps_counter = "None"
    /\ tpc = "idle"
    /\ display = "none"
    /\ stop_request = FALSE
    /\ cleaned = "no"
    /\ ingested = 0
    /\ reported = 0
    /\ ticks = 0
    /\ cur = NoFrame
    /\ streak = 0
    /\ lastNoFace = 0
    /\ lastReset = 0
    /\ sinceReset = 0
    /\ batch = NoBatch

\* ------------------------------------------------------------ module body
\* Line 244: the module body calls infinite_infer_run().
Call244 ==
    /\ mpc = "L244" /\ fpc = "idle" /\ calls = 0
    /\ fpc' = "setup"
    /\ calls' = calls + 1
    /\ exc' = "none" /\ caught' = FALSE
    /\ UNCHANGED <<mpc, names, config, propagated, frame_count, reg,
                   main_globals, timer_globals, fps_counter, display,
                   stop_request, cleaned, ingested, history>>

\* Lines 247-287: the def statements bind cleanup, start_over and fps_count.
DefineRest ==
    /\ mpc = "defs"
    /\ names' = {"cleanup", "start_over", "fps_count"}
    /\ mpc' = "loaded"
    /\ UNCHANGED <<config, fpc, calls, exc, caught, propagated, frame_count, reg,
                   main_globals, timer_globals, fps_counter, display,
                   stop_request, cleaned, ingested, history>>

\* The importer of the loaded module runs the entry point (line 103).
Invoke ==
    /\ mpc = "loaded" /\ fpc = "idle" /\ calls = 1
    /\ fpc' = "setup"
    /\ calls' = calls + 1
    /\ exc' = "none" /\ caught' = FALSE
    /\ UNCHANGED <<mpc, names, config, propagated, frame_count, reg,
                   main_globals, timer_globals, fps_counter, display,
                   stop_request, cleaned, ingested, history>>

\* Where control goes in the module body when infinite_infer_run returns.
Returned == IF mpc = "L244" THEN "defs" ELSE mpc
\* ... and when an exception leaves it.
Unwound  == IF mpc = "L244" THEN "crashed" ELSE mpc

\* ------------------------------------------------------------- helpers
\* raise inside the try block of lines 109-238: control goes to line 240.
Raise(kind) ==
    /\ exc' = kind
    /\ fpc' = "handler"

\* A start_over that forgets the two lists.
start_over_sequence_only ==
    /\ sequence' = 0
    /\ UNCHANGED <<faces, landmarks>>

\* start_over(), lines 259-273.
start_over ==
    /\ sequence' = 0
    /\ faces' = <<>>
    /\ landmarks' = <<>>

\* A sequence that is never incremented.
NextSequence_stuck == sequence

\* sequence += 1, line 194.
NextSequence == sequence + 1

\* An accumulation that appends the crop outside the landmark test.
Accumulate_unpaired(lm, id) ==
    /\ faces' = Append(faces, id)
    /\ landmarks' = IF lm THEN Append(landmarks, id) ELSE landmarks

\* Lines 204-206: the crop and the landmark are appended when a landmark was
\* predicted.
Accumulate(lm, id) ==
    IF lm
    THEN /\ faces' = Append(faces, id)
         /\ landmarks' = Append(landmarks, id)
    ELSE UNCHANGED <<faces, landmarks>>

\* A batch test on the sequence counter instead of the list.
BatchFull_by_sequence == sequence = batch_size

\* A batch test that fires one crop late.
BatchFull_late == Len(faces) > batch_size

\* Line 209: len(faces) == batch_size.
BatchFull == Len(faces) = batch_size

\* frame_count % frame_skip_factor == 0, line 178.
Processed == frame_count % frame_skip_factor = 0

\* fps = frame_count / 5.0 (true division), in tenths.
FpsOf(n) == (n * 10) \div FpsInterval

\* deque(maxlen=100).append
DequeAppend(q, v) ==
    IF Len(q) = FpsQueueMaxLen THEN Append(Tail(q), v) ELSE Append(q, v)

\* ------------------------------------------------- infinite_infer_run: setup
\* Lines 106-107, outside the try block: setup_logging(), setup_config().
Setup ==
    /\ fpc = "setup"
    /\ \/ /\ fpc' = "display"
          /\ UNCHANGED <<mpc, exc, propagated>>
       \/ /\ exc' = "SetupError"
          /\ propagated' = TRUE
          /\ fpc' = "idle"
          /\ mpc' = Unwound
    /\ UNCHANGED <<names, config, calls, caught, frame_count, reg, main_globals,
                   timer_globals, fps_counter, display, stop_request, cleaned,
                   ingested, history>>

\* Lines 142-143: LocalDisplay(resolution) (lines 57-58 raise on a resolution
\* that is not in RESOLUTION), then local_display.start().
CreateDisplay ==
    /\ fpc = "display"
    /\ IF resolution \in RESOLUTION
       THEN /\ display' = "started"
            /\ fpc' = "timer"
            /\ UNCHANGED exc
       ELSE /\ Raise("InvalidResolution")
            /\ UNCHANGED display
    /\ UNCHANGED <<mpc, names, config, calls, caught, propagated, frame_count,
                   reg, main_globals, timer_globals, fps_counter, stop_request,
                   cleaned, ingested, history>>

\* Line 146: fps_counter = RepeatedTimer(interval=5.0, function=fps_count).
\* The global name fps_count is looked up when the line runs.
CreateTimer ==
    /\ fpc = "timer"
    /\ IF "fps_count" \in names
       THEN /\ fps_counter' = "created"
            /\ fpc' = "models"
            /\ UNCHANGED exc
       ELSE /\ Raise("NameError")
            /\ UNCHANGED fps_counter
    /\ UNCHANGED <<mpc, names, config, calls, caught, propagated, frame_count,
                   reg, main_globals, timer_globals, display, stop_request,
                   cleaned, ingested, history>>

\* Lines 149-155: the detector, landmark detector and recognizer are built.
CreateModels ==
    /\ fpc = "models"
    /\ \/ /\ fpc' = "seq0"
          /\ UNCHANGED exc
       \/ Raise("ModelError")
    /\ UNCHANGED <<mpc, names, config, calls, caught, propagated, frame_count,
                   reg, main_globals, timer_globals, fps_counter, display,
                   stop_request, cleaned, ingested, history>>

\* Line 158: sequence = 0.
InitSequence ==
    /\ fpc = "seq0"
    /\ sequence' = 0
    /\ fpc' = "tstart"
    /\ UNCHANGED <<mpc, names, config, calls, exc, caught, propagated,
                   frame_count, reg, faces, landmarks, timer_globals,
                   fps_counter, display, stop_request, cleaned, ingested,
                   history>>

\* Line 161: fps_counter.start().
StartTimer ==
    /\ fpc = "tstart"
    /\ fps_counter' = "running"
    /\ fpc' = "get"
    /\ UNCHANGED <<mpc, names, config, calls, exc, caught, propagated,
                   frame_count, reg, main_globals, timer_globals, display,
                   stop_request, cleaned, ingested, history>>

\* --------------------------------------------- infinite_infer_run: main loop
\* Lines 166-172: awscam.getLastFrame(); a false ret raises.
GetFrame ==
    /\ fpc = "get"
    /\ \/ /\ ingested < MaxFrames
          /\ ingested' = ingested + 1
          /\ cur' = [NoFrame EXCEPT !.id = ingested + 1]
          /\ fpc' = "inc_load"
          /\ UNCHANGED exc
       \/ /\ Raise("FrameFailed")
          /\ UNCHANGED <<ingested, cur>>
    /\ UNCHANGED <<mpc, names, config, calls, caught, propagated, frame_count,
                   reg, main_globals, timer_globals, fps_counter, display,
                   stop_request, cleaned, streak, lastNoFace, lastReset,
                   sinceReset, batch>>

\* Line 175, frame_count += 1: the global is loaded ...
IncLoad ==
    /\ fpc = "inc_load"
    /\ reg' = frame_count
    /\ fpc' = "inc_store"
    /\ UNCHANGED <<mpc, names, config, calls, exc, caught, propagated,
                   frame_count, main_globals, timer_globals, fps_counter,
                   display, stop_request, cleaned, ingested, history>>

\* ... and the sum is stored.
IncStore ==
    /\ fpc = "inc_store"
    /\ frame_count' = reg + 1
    /\ fpc' = "skip"
    /\ UNCHANGED <<mpc, names, config, calls, exc, caught, propagated, reg,
                   main_globals, timer_globals, fps_counter, display,
                   stop_request, cleaned, ingested, history>>

\* Lines 178-179: the frame-skip throttle.
SkipCheck ==
    /\ fpc = "skip"
    /\ IF Processed
       THEN /\ fpc' = "detect"
            /\ UNCHANGED cur
       ELSE /\ fpc' = "get"
            /\ cur' = [cur EXCEPT !.detect = "skipped"]
    /\ UNCHANGED <<mpc, names, config, calls, exc, caught, propagated,
                   frame_count, reg, main_globals, timer_globals, fps_counter,
                   display, stop_request, cleaned, ingested, streak, lastNoFace,
                   lastReset, sinceReset, batch>>

\* Lines 182-191: face_detector.detect(grayImg) and the test of its result.
Detect ==
    /\ fpc = "detect"
    /\ \/ /\ fpc' = "face"
          /\ cur' = [cur EXCEPT !.detect = "face"]
          /\ UNCHANGED <<exc, lastNoFace>>
       \/ /\ fpc' = "noface"
          /\ cur' = [cur EXCEPT !.detect = "noface"]
          /\ lastNoFace' = cur.id
          /\ UNCHANGED exc
       \/ /\ Raise("DetectError")
          /\ UNCHANGED <<cur, lastNoFace>>
    /\ UNCHANGED <<mpc, names, config, calls, caught, propagated, frame_count,
                   reg, main_globals, timer_globals, fps_counter, display,
                   stop_request, cleaned, ingested, streak, lastReset,
                   sinceReset, batch>>

\* Lines 194-206: sequence += 1, landmark_detector.predict, the two appends.
FaceFound ==
    /\ fpc = "face"
    /\ sequence' = NextSequence
    /\ sinceReset' = sinceReset + 1
    /\ \/ \E lm \in BOOLEAN :
             /\ Accumulate(lm, cur.id)
             /\ cur' = [cur EXCEPT !.lm = lm]
             /\ streak' = IF ~lm THEN 0
                          ELSE IF Len(faces) = 0 THEN 1
                          ELSE IF streak > 0 THEN streak + 1
                          ELSE 0
             /\ fpc' = "batch"
             /\ UNCHANGED exc
       \/ /\ Raise("PredictError")
          /\ UNCHANGED <<faces, landmarks, cur, streak>>
    /\ UNCHANGED <<mpc, names, config, calls, caught, propagated, frame_count,
                   reg, timer_globals, fps_counter, display, stop_request,
                   cleaned, ingested, lastNoFace, lastReset, batch>>

\* Lines 209-226: a full batch goes to face_recognizer.embed and infer, the
\* identity is printed and start_over() is called.
BatchCheck ==
    /\ fpc = "batch"
    /\ IF BatchFull
       THEN /\ batch' = [n |-> batch.n + 1, faces |-> faces,
                         landmarks |-> landmarks, lastNoFace |-> lastNoFace,
                         lastReset |-> lastReset]
            /\ \/ /\ cur' = [cur EXCEPT !.rec = TRUE, !.emit = TRUE]
                  /\ IF "start_over" \in names
                     THEN /\ start_over
                          /\ lastReset' = cur.id
                          /\ sinceReset' = 0
                          /\ fpc' = "show"
                          /\ UNCHANGED exc
                     ELSE /\ Raise("NameError")
                          /\ UNCHANGED <<main_globals, lastReset, sinceReset>>
               \/ /\ cur' = [cur EXCEPT !.rec = TRUE]
                  /\ Raise("RecognizeError")
                  /\ UNCHANGED <<main_globals, lastReset, sinceReset>>
       ELSE /\ fpc' = "show"
            /\ UNCHANGED <<exc, main_globals, cur, batch, lastReset, sinceReset>>
    /\ UNCHANGED <<mpc, names, config, calls, caught, propagated, frame_count,
                   reg, timer_globals, fps_counter, display, stop_request,
                   cleaned, ingested, streak, lastNoFace>>

\* Lines 228-230: no face in the frame, start_over().
NoFace ==
    /\ fpc = "noface"
    /\ IF "start_over" \in names
       THEN /\ start_over
            /\ lastReset' = cur.id
            /\ sinceReset' = 0
            /\ fpc' = "show"
            /\ UNCHANGED exc
       ELSE /\ Raise("NameError")
            /\ UNCHANGED <<main_globals, lastReset, sinceReset>>
    /\ streak' = 0
    /\ UNCHANGED <<mpc, names, config, calls, caught, propagated, frame_count,
                   reg, timer_globals, fps_counter, display, stop_request,
                   cleaned, ingested, cur, lastNoFace, batch>>

\* Lines 233-238: the FPS overlay and local_display.set_frame_data(frame),
\* which raises when the frame cannot be encoded (lines 94-96).
Show ==
    /\ fpc = "show"
    /\ \/ /\ fpc' = "get"
          /\ UNCHANGED exc
       \/ Raise("EncodeFailed")
    /\ UNCHANGED <<mpc, names, config, calls, caught, propagated, frame_count,
                   reg, main_globals, timer_globals, fps_counter, display,
                   stop_request, cleaned, ingested, history>>

\* A handler that logs and goes back to acquiring frames.
Handler_retry ==
    /\ fpc = "handler"
    /\ caught' = TRUE
    /\ fpc' = "get"
    /\ UNCHANGED <<mpc, names, config, calls, exc, propagated, frame_count, reg,
                   main_globals, timer_globals, fps_counter, display,
                   stop_request, cleaned, ingested, history>>

\* Lines 240-241: except Exception logs the exception; the function returns.
Handler ==
    /\ fpc = "handler"
    /\ caught' = TRUE
    /\ fpc' = "idle"
    /\ mpc' = Returned
    /\ UNCHANGED <<names, config, calls, exc, propagated, frame_count, reg,
                   main_globals, timer_globals, fps_counter, display,
                   stop_request, cleaned, ingested, history>>

\* ------------------------------------------------------------ other threads
\* fps_count(), lines 284-285, run by the timer: fps is computed and queued ...
Tick ==
    /\ fps_counter = "running" /\ tpc = "idle" /\ ticks < MaxTicks
    /\ fps' = FpsOf(frame_count)
    /\ fps_queue' = DequeAppend(fps_queue, FpsOf(frame_count))
    /\ reported' = reported + frame_count
    /\ ticks' = ticks + 1
    /\ tpc' = "reset"
    /\ UNCHANGED <<mpc, names, config, fpc, calls, exc, caught, propagated,
                   frame_count, reg, main_globals, fps_counter, display,
                   stop_request, cleaned, ingested, history>>

\* ... and, line 287, frame_count is set to 0.
TickReset ==
    /\ tpc = "reset"
    /\ frame_count' = 0
    /\ tpc' = "idle"
    /\ UNCHANGED <<mpc, names, config, fpc, calls, exc, caught, propagated, reg,
                   fps, fps_queue, reported, ticks, main_globals, fps_counter,
                   display, stop_request, cleaned, ingested, history>>

\* Thread.start() calls self.run() with no argument; run(self, config) of
\* line 66 needs one, so the thread ends with a TypeError before line 73.
DisplayRun ==
    /\ display = "started"
    /\ display' = "dead"
    /\ UNCHANGED <<mpc, names, config, fpc, calls, exc, caught, propagated,
                   frame_count, reg, main_globals, timer_globals, fps_counter,
                   stop_request, cleaned, ingested, history>>

\* cleanup(), lines 247-256, called by the importer of the loaded module:
\* fps_counter.stop() (an AttributeError while fps_counter is None).
cleanup ==
    /\ mpc = "loaded" /\ fpc = "idle" /\ cleaned = "no"
    /\ IF fps_counter = "None"
       THEN /\ cleaned' = "AttributeError"
            /\ UNCHANGED fps_counter
       ELSE /\ cleaned' = "done"
            /\ fps_counter' = "stopped"
    /\ UNCHANGED <<mpc, names, config, fpc, calls, exc, caught, propagated,
                   frame_count, reg, main_globals, timer_globals, display,
                   stop_request, ingested, history>>

\* ------------------------------------------------------------ specification
MainThread ==
    \/ Call244 \/ DefineRest
    \/ Setup \/ CreateDisplay \/ CreateTimer \/ CreateModels \/ InitSequence
    \/ StartTimer \/ GetFrame \/ IncLoad \/ IncStore \/ SkipCheck \/ Detect
    \/ FaceFound \/ BatchCheck \/ NoFace \/ Show \/ Handler

TimerThread == Tick \/ TickReset

Importer == Invoke \/ cleanup

Next == MainThread \/ TimerThread \/ DisplayRun \/ Importer

Spec == Init /\ [][Next]_vars

\* The interpreter keeps scheduling every thread that can run; the importer
\* owes the module nothing.
FairSpec ==
    /\ Spec
    /\ WF_vars(MainThread)
    /\ WF_vars(TimerThread)
    /\ WF_vars(DisplayRun)

\* ---------------------------------------------------------------- properties
\* The loop is back at line 166 after an iteration; cur describes that iteration.
IterEnd == fpc = "get" /\ cur.id > 0

\* Exceptions raised inside the try block of lines 109-238.
TryExc == (LoopExc \cup InitExc) \ {"SetupError"}

\* An invocation that reached the main loop has ended.
LoopEnded == fpc = "idle" /\ caught /\ exc \in LoopExc

\* C1: at the end of a processed frame in which no face was detected, or in
\* which the recognizer was invoked, sequence is 0 and both lists are empty.
C1_ResetOnFailureOrBatch ==
    (IterEnd /\ (cur.detect = "noface" \/ cur.rec))
        => (sequence = 0 /\ faces = <<>> /\ landmarks = <<>>)

C1_Witness ==
    /\ IterEnd /\ cur.rec /\ batch_size = 2
    /\ lastNoFace > 0 /\ lastReset = cur.id
    /\ faces = <<>> /\ sequence = 0

\* C2: every batch handed to the recognizer holds exactly batch_size crops,
\* paired one-to-one with batch_size landmarks of the same frames, all taken
\* after the last reset and after the last processed frame without a face.
C2_BatchWellFormed ==
    batch.n > 0 =>
        /\ Len(batch.faces) = batch_size
        /\ Len(batch.landmarks) = batch_size
        /\ \A i \in 1..batch_size : batch.landmarks[i] = batch.faces[i]
        /\ \A i \in 1..batch_size : /\ batch.faces[i] > batch.lastReset
                                    /\ batch.faces[i] > batch.lastNoFace

C2_Witness ==
    batch.n > 0 /\ batch_size = 2 /\ batch.lastNoFace > 0

\* C3: counting from empty lists, the recognizer is invoked on the
\* batch_size-th successive processed frame with a face and a landmark, on
\* none of the earlier ones, and that frame ends with an identity printed.
C3_BatchTrigger ==
    /\ (cur.rec /\ streak > 0) => streak = batch_size
    /\ (IterEnd /\ cur.detect = "face" /\ cur.lm /\ streak = batch_size)
           => (cur.rec /\ cur.emit)

C3_Witness ==
    IterEnd /\ cur.lm /\ streak = 2 /\ batch_size = 2 /\ cur.rec /\ cur.emit

\* C9: at the end of every iteration the two lists have the same length, at
\* most sequence, and sequence is the number of processed frames with a
\* face since the last reset, landmark or not.
C9_Lengths ==
    IterEnd => /\ Len(landmarks) = Len(faces)
               /\ Len(faces) <= sequence
               /\ sequence = sinceReset

C9_Witness ==
    IterEnd /\ Len(faces) = 1 /\ Len(landmarks) = 1 /\ sequence = 2

\* C10: faces never holds more than batch_size crops, and fewer than
\* batch_size at the end of every iteration.
C10_Bounded ==
    /\ Len(faces) <= batch_size
    /\ IterEnd => Len(faces) < batch_size

C10_Witness ==
    fpc = "batch" /\ batch_size = 2 /\ Len(faces) = 2

\* C4: face detection runs on a frame only when the number of frames
\* ingested so far is a multiple of frame_skip_factor, whenever the timer fires.
C4_EveryKthFrame ==
    fpc = "detect" => ingested % frame_skip_factor = 0

\* C5: the frame counts reported by fps_count, plus the frames counted since
\* its last run, add up to the frames ingested: none lost, none counted twice
\* (read while fps_count is not running and no frame_count += 1 is under way).
C5_NoFrameLost ==
    (tpc = "idle" /\ fpc \notin {"inc_load", "inc_store"})
        => reported + frame_count = ingested

\* C6, as stated: whatever exception is raised inside infinite_infer_run, the
\* function ends by logging it at line 241 and nothing propagates.
C6_EveryExceptionCaught ==
    /\ exc # "none" => ~propagated
    /\ (exc # "none" /\ fpc = "idle") => caught

\* C6, amended: an exception raised inside the try block (lines 109-238) is
\* caught and logged, the function returns without propagating it, and that
\* invocation neither retries nor acquires or processes another frame; only an
\* exception of setup_logging() or setup_config() (lines 106-107) propagates.
C6_TryBlockExceptionCaught ==
    /\ [](/\ propagated => exc = "SetupError"
          /\ exc \in TryExc => fpc \in {"handler", "idle"}
          /\ (exc \in TryExc /\ fpc = "idle") => caught)
    /\ [][(caught /\ calls' = calls)
             => (fpc' = "idle" /\ ingested' = ingested /\ cur' = cur)]_vars

C6_Witness ==
    fpc = "idle" /\ caught /\ exc = "FrameFailed" /\ ingested > 0 /\ ~propagated

\* C7: once the main loop has ended, eventually the timer has been stopped
\* and the display thread's stop_request is set.
C7_StoppedOnShutdown ==
    LoopEnded ~> (fps_counter # "running" /\ stop_request)

\* Exceptions of a failed frame acquisition or of a called stage.
StageExc == (LoopExc \cup InitExc) \ {"NameError"}

\* C8: an invocation of the entry point completes its initialisation and
\* stays in its loop: it reaches the except clause only through a failed frame
\* acquisition or a called stage that raised, and the display thread it
\* started keeps executing run().
C8_InitialisationCompletes ==
    /\ fpc = "handler" => exc \in StageExc
    /\ display # "dead"

====
